---- MODULE Spec2Model ----
(***************************************************************************)
(* Model of riscv/riscv_sim.c: the lock-step harness that runs the Sail    *)
(* RISC-V model (the "engine") against Spike (the "oracle").               *)
(*                                                                         *)
(* One action per function or loop step of the harness.  The engine, the   *)
(* oracle, the ELF loader and the file system are external collaborators:  *)
(* their results are drawn with \E from small sets when they are called.   *)
(* 64-bit quantities that do not fit a TLC integer are kept as little-     *)
(* endian byte tuples.                                                     *)
(***************************************************************************)
EXTENDS Integers, Sequences, FiniteSets, TLC

(* ------------------------------ bounds -------------------------------- *)
\* longest command line (number of options before the ELF file)
MaxArgs == 2
\* most iterations of the run_sail loop that are explored
MaxIter == 3
\* largest instructions-per-tick value
MaxIpt == 2
\* largest general-purpose-register / CSR value
MaxVal == 1

(* ------------------------- program constants -------------------------- *)
CSR_STVEC == 261
CSR_SEPC == 321
CSR_SCAUSE == 322
CSR_STVAL == 323
CSR_MSTATUS == 768
CSR_MISA == 769
CSR_MEPC == 833
CSR_MCAUSE == 834
CSR_MTVAL == 835
\* #define RST_VEC_SIZE 8 (32-bit words)
RST_VEC_SIZE == 8
\* const int align = 0x1000
align == 4096
\* rv_rom_base = DEFAULT_RSTVEC
DEFAULT_RSTVEC == 4096
\* SAIL_XLEN == 32 ? lw : ld
SAIL_XLEN == 64

(* ------------------------------ helpers ------------------------------- *)
\* the four little-endian bytes of the 32-bit word hi16 * 2^16 + lo16
WordBytes(hi16, lo16) ==
  << lo16 % 256, lo16 \div 256, hi16 % 256, hi16 \div 256 >>

\* the little-endian bytes of a 32-bit word small enough for a TLC integer
WordBytesOf(w) == WordBytes(w \div 65536, w % 65536)

\* ((char *)reset_vec)[i]: a byte read through a (signed) char pointer
CharOf(b) == IF b >= 128 THEN b - 256 ELSE b

\* write_mem(addr, v): guest memory keeps the low eight bits of v
write_mem(v) == v % 256

\* Guest memory is kept as the sequence of the runs of bytes written to it:
\* a run starts at address at, is len bytes long, and holds either the bytes
\* of data or, when data is empty, len copies of the byte v.

\* for (i ...) write_mem(addr++, bytes[i]): the bytes land at a, a+1, ...
WriteSeq(m, a, bytes) ==
  IF Len(bytes) = 0 THEN m
  ELSE Append(m, [at |-> a, len |-> Len(bytes),
                  data |-> [i \in 1..Len(bytes) |-> write_mem(bytes[i])], v |-> 0])

\* for (i ...) write_mem(addr++, val), n times
WriteFill(m, a, n, val) ==
  IF n <= 0 THEN m
  ELSE Append(m, [at |-> a, len |-> n, data |-> <<>>, v |-> write_mem(val)])

\* whether address a has been written
Written(m, a) == \E k \in 1..Len(m) : a >= m[k].at /\ a < m[k].at + m[k].len

\* the byte at address a: the one the last write to a stored
MemAt(m, a) ==
  LET ks == { k \in 1..Len(m) : a >= m[k].at /\ a < m[k].at + m[k].len }
      k == CHOOSE j \in ks : \A i \in ks : i <= j
  IN IF m[k].data = <<>> THEN m[k].v ELSE m[k].data[a - m[k].at + 1]

\* largest small device-tree length explored
MaxDtbLen == 2

\* a device tree that fills the first ROM page exactly
PageDtbLen == align - RST_VEC_SIZE * 4

\* device-tree bytes: variant 0 is the reference blob, variant 1 differs from
\* it in the last byte only, variant 2 in the first byte only
DtbPat(len, v) ==
  SubSeq([ i \in 1..len |->
           IF (v = 1 /\ i = len) \/ (v = 2 /\ i = 1) THEN 238
           ELSE (208 + 7 * i) % 256 ], 1, len)

DtbLens == {1, PageDtbLen, PageDtbLen + 1}

\* the device trees of the boot-image runs, and the few of the full runs
\* (the empty sequence stands for "no device tree")
DtbSet ==
  { DtbPat(len, 0) : len \in DtbLens }
  \cup { DtbPat(PageDtbLen, v) : v \in 1..2 } \cup { <<>> }
RunDtbSet ==
  { DtbPat(MaxDtbLen, 0), DtbPat(MaxDtbLen, 1), DtbPat(MaxDtbLen - 1, 0), <<>> }

\* entry addresses, as eight little-endian bytes: 0x80000000 and 0x1_8000_1234
EntrySet == { <<0, 0, 0, 128, 0, 0, 0, 0>>, <<52, 18, 0, 128, 1, 0, 0, 0>> }
RunEntrySet == { <<0, 0, 0, 128, 0, 0, 0, 0>> }

\* RAM sizes in MB; the first is the platform default
DefaultRamMB == 64
RamMBs == {DefaultRamMB, 2 * DefaultRamMB}
MB(n) == n * 1048576

(* --------------------------- command line ----------------------------- *)
\* static struct option options[]: the index of each long option
OptIndex(c) ==
  CASE c = "d" -> 0 [] c = "m" -> 1 [] c = "z" -> 2 [] c = "i" -> 3
    [] c = "s" -> 4 [] c = "b" -> 5 [] c = "t" -> 6 [] c = "h" -> 7

LongOpts == {"d", "m", "z", "i", "s", "b", "t", "h"}
\* the optstring "dmsz:b:t:v:h"
ShortOpts == {"d", "m", "s", "z", "b", "t", "v", "h"}
ArgOpts == {"z", "b", "t", "v"}

\* one option word: its letter, whether it was given in long form, and the
\* number atol() reads from its argument (used by ram-size only)
Tokens ==
  { [c |-> c, long |-> l, arg |-> 0] :
      c \in {"d", "m", "i", "s", "b", "h", "v"}, l \in BOOLEAN }
  \cup { [c |-> "z", long |-> FALSE, arg |-> a] : a \in {0, 2 * DefaultRamMB} }

RECURSIVE SeqsUpTo(_, _)
SeqsUpTo(S, n) ==
  IF n = 0 THEN { <<>> }
  ELSE LET shorter == SeqsUpTo(S, n - 1)
       IN shorter \cup { Append(q, t) : q \in shorter, t \in S }

ArgvSet == SeqsUpTo(Tokens, MaxArgs)
\* the command lines of the boot-image runs: at most one option
BootArgvSet == SeqsUpTo(Tokens, 1)

\* what getopt_long returns for an option word
GetoptChar(tok) ==
  IF tok.long THEN (IF tok.c \in LongOpts THEN tok.c ELSE "?")
  ELSE IF tok.c \in ShortOpts THEN tok.c ELSE "?"

RECURSIVE Argc(_, _)
Argc(argv, has_file) ==
  IF argv = <<>> THEN 1 + (IF has_file THEN 1 ELSE 0)
  ELSE (IF Head(argv).c \in ArgOpts THEN 2 ELSE 1) + Argc(Tail(argv), has_file)

\* one pass through the switch of process_args; "i" falls through into "s"
ArgCase(tok, st) ==
  LET c == GetoptChar(tok)
      st0 == [st EXCEPT !.seen = @ \cup {c}]
      st1 == IF tok.long /\ c # "?" THEN [st0 EXCEPT !.idx = OptIndex(c)] ELSE st0
  IN CASE c = "d" -> [st1 EXCEPT !.dirty = TRUE]
       [] c = "m" -> [st1 EXCEPT !.misaligned = TRUE]
       [] c = "i" -> [st1 EXCEPT !.mtval = TRUE, !.dump = TRUE]
       [] c = "s" -> [st1 EXCEPT !.dump = TRUE]
       [] c = "z" -> IF tok.arg # 0 THEN [st1 EXCEPT !.ram = MB(tok.arg)] ELSE st1
       [] c = "b" -> [st1 EXCEPT !.dtb_file = TRUE]
       [] c = "t" -> [st1 EXCEPT !.term_log = TRUE]
       [] c = "h" -> [st1 EXCEPT !.exit = 0]
       [] OTHER -> [st1 EXCEPT !.exit = 1]

\* the while (true) getopt_long loop; print_usage() exits at once
RECURSIVE ArgLoop(_, _)
ArgLoop(argv, st) ==
  IF argv = <<>> \/ st.exit # -1 THEN st
  ELSE ArgLoop(Tail(argv), ArgCase(Head(argv), st))

(* ------------------------- architectural state ------------------------ *)
Val == 0..MaxVal
GprIdx == 0..31
\* the CSRs the engine and the oracle both hold (CSR_STVEC is defined by the
\* harness but never compared)
CsrIds == {CSR_MCAUSE, CSR_MEPC, CSR_MTVAL, CSR_MSTATUS,
           CSR_SCAUSE, CSR_SEPC, CSR_STVAL, CSR_STVEC, CSR_MISA}

\* the engine's registers after model_init(): zcur_privilege (the C enum
\* User = 0, Supervisor = 1, Machine = 2), zx1..zx31, and the CSR chunks
SailReset == [cur_privilege |-> 2, x |-> [i \in GprIdx |-> 0], csr |-> [c \in CsrIds |-> 0]]

\* the oracle's registers after tv_reset(): privilege in the ISA encoding
SpikeReset == [priv |-> 3, pc |-> DEFAULT_RSTVEC, x |-> [i \in GprIdx |-> 0],
               csr |-> [c \in CsrIds |-> 0]]

(* ------------------------------- state -------------------------------- *)
VARIABLES
  SPIKE,                \* whether the build defines SPIKE (oracle attached)
  pc,                   \* the harness' position in main / run_sail
  exit_status,          \* the status passed to exit(); -1 while running
  exit_at,              \* the position from which exit() was called
  file,                 \* the ELF path process_args returned ("elf" or "NULL")
  entry,                \* the ELF entry address, eight little-endian bytes
  do_dump_dts, rv_enable_dirty_update, rv_enable_misaligned,
  rv_mtval_has_illegal_inst_bits, rv_ram_size, dtb,
  s,                    \* the oracle handle: its configuration, NULL if not live
  spike_dtb, rv_insns_per_tick,
  mem,                  \* the guest memory the harness has written (the ROM)
  addr, rv_rom_base, rv_rom_size, zPC,
  sail, spike,          \* the engine's and the oracle's registers
  step_no, insn_cnt, stepped, spike_done, diverged,
  zhtif_done, zhtif_exit_code, have_exception,
  calls                 \* how often each collaborator has been called

statusvars == << exit_status, exit_at >>
cfgvars == << do_dump_dts, rv_enable_dirty_update, rv_enable_misaligned,
              rv_mtval_has_illegal_inst_bits, rv_ram_size, dtb, file, entry >>
spikevars == << s, spike_dtb, rv_insns_per_tick >>
romvars == << mem, addr, rv_rom_base, rv_rom_size, zPC >>
archvars == << sail, spike >>
loopvars == << step_no, insn_cnt, stepped, spike_done, diverged >>
htifvars == << zhtif_done, zhtif_exit_code, have_exception >>

vars == << SPIKE, pc, statusvars, cfgvars, spikevars, romvars, archvars,
           loopvars, htifvars, calls >>

\* struct tv_spike_t *s = NULL
NoSpike == [live |-> FALSE, dirty |-> FALSE, misaligned |-> FALSE, ram |-> 0,
            dtb_err |-> FALSE]

\* compare_states has made no check yet: n checks made, the set of failed ones
NoChecks == [n |-> 0, failed |-> {}]

NoCalls == [getopt |-> {}, zstep |-> 0, tv_step |-> 0, compare |-> 0, ztick |-> 0,
            tick_spike |-> 0, model_init |-> 0, model_fini |-> 0,
            tv_init |-> 0, tv_free |-> 0, step_args |-> <<>>, step_rets |-> <<>>,
            checked |-> NoChecks, report |-> "none"]

\* the state when main() is entered: the static initialisers of the globals
Init ==
  /\ SPIKE \in BOOLEAN
  /\ pc = "process_args"
  /\ exit_status = -1
  /\ exit_at = "none"
  /\ file = "NULL"
  /\ entry = <<0, 0, 0, 0, 0, 0, 0, 0>>
  /\ do_dump_dts = FALSE
  /\ rv_enable_dirty_update = FALSE
  /\ rv_enable_misaligned = FALSE
  /\ rv_mtval_has_illegal_inst_bits = FALSE
  /\ rv_ram_size = MB(DefaultRamMB)
  /\ dtb = <<>>
  /\ s = NoSpike
  /\ spike_dtb = <<>>
  /\ rv_insns_per_tick \in 1..MaxIpt
  /\ mem = <<>>
  /\ addr = 0
  /\ rv_rom_base = 0
  /\ rv_rom_size = 0
  /\ zPC = 0
  /\ sail = SailReset
  /\ spike = SpikeReset
  /\ step_no = 0
  /\ insn_cnt = 0
  /\ stepped = FALSE
  /\ spike_done = FALSE
  /\ diverged = FALSE
  /\ zhtif_done = FALSE
  /\ zhtif_exit_code = 0
  /\ have_exception = FALSE
  /\ calls = NoCalls

\* exit(ec): the process is gone, with status ec
Exit(ec) ==
  /\ pc' = "exited"
  /\ exit_status' = ec
  /\ exit_at' = pc

(* -------------------------------- main -------------------------------- *)
\* process_args(argc, argv), with read_dtb() and dump_dts() inlined
ProcessArgsOn(D, A) ==
  /\ pc = "process_args"
  /\ \E bytes \in D, argv \in A, has_file \in BOOLEAN, readable \in BOOLEAN :
       LET st0 == [dirty |-> rv_enable_dirty_update, misaligned |-> rv_enable_misaligned,
                   mtval |-> rv_mtval_has_illegal_inst_bits, dump |-> do_dump_dts,
                   ram |-> rv_ram_size, dtb_file |-> FALSE, term_log |-> FALSE,
                   idx |-> 1, exit |-> -1, seen |-> {}]
           st == ArgLoop(argv, st0)
           argc == Argc(argv, has_file)
           \* print_usage() or dump_dts() ends the process before read_dtb()
           ec0 == IF st.exit # -1 THEN st.exit
                  ELSE IF st.dump THEN 0
                  ELSE IF st.idx >= argc THEN 0
                  ELSE -1
           reads == ec0 = -1 /\ st.dtb_file
           \* read_dtb(): open() fails, or mmap() of an empty file fails
           ec == IF reads /\ (~readable \/ bytes = <<>>) THEN 1 ELSE ec0
       IN /\ ~reads => (readable /\ bytes = <<>>)
          /\ do_dump_dts' = st.dump
          /\ rv_enable_dirty_update' = st.dirty
          /\ rv_enable_misaligned' = st.misaligned
          /\ rv_mtval_has_illegal_inst_bits' = st.mtval
          /\ rv_ram_size' = st.ram
          /\ dtb' = IF ec = -1 /\ st.dtb_file THEN bytes ELSE <<>>
          /\ file' = IF ec = -1 /\ has_file THEN "elf" ELSE "NULL"
          /\ UNCHANGED entry
          /\ calls' = [calls EXCEPT !.getopt = st.seen]
          /\ IF ec # -1 THEN Exit(ec)
             ELSE pc' = "init_logs" /\ UNCHANGED statusvars
  /\ UNCHANGED << SPIKE, spikevars, romvars, archvars, loopvars, htifvars >>

ProcessArgs == ProcessArgsOn(RunDtbSet, ArgvSet)

\* init_logs(): dup2() or open() of the terminal log may fail
InitLogs ==
  /\ pc = "init_logs"
  /\ \E ok \in BOOLEAN :
       IF ok THEN pc' = "load_sail" /\ UNCHANGED statusvars ELSE Exit(1)
  /\ UNCHANGED << SPIKE, cfgvars, spikevars, romvars, archvars, loopvars, htifvars, calls >>

\* load_sail(f): load_elf() ends the process on an inaccessible file, the
\* harness on a 32-bit image or a missing tohost symbol
LoadSailOn(E) ==
  /\ pc = "load_sail"
  /\ \E is32bit \in BOOLEAN, has_tohost \in BOOLEAN, e \in E :
       LET ok == file # "NULL" /\ ~is32bit /\ has_tohost
       IN /\ ~ok => e = CHOOSE x \in E : TRUE
          /\ file = "NULL" => (~is32bit /\ has_tohost)
          /\ entry' = IF ok THEN e ELSE entry
          /\ IF ok THEN pc' = "init_spike" /\ UNCHANGED statusvars ELSE Exit(1)
  /\ UNCHANGED << SPIKE, do_dump_dts, rv_enable_dirty_update, rv_enable_misaligned,
                  rv_mtval_has_illegal_inst_bits, rv_ram_size, dtb, file,
                  spikevars, romvars, archvars, loopvars, htifvars, calls >>

LoadSail == LoadSailOn(RunEntrySet)

\* a check that forgets the RAM size
ConfigMismatch_NoRam(o) ==
  \/ o.dirty # rv_enable_dirty_update
  \/ o.misaligned # rv_enable_misaligned

\* the three configuration checks of init_spike()
ConfigMismatch(o) ==
  \/ o.dirty # rv_enable_dirty_update
  \/ o.misaligned # rv_enable_misaligned
  \/ o.ram # rv_ram_size

\* init_spike(f, entry, ram_size)
InitSpikeOn(D) ==
  /\ pc = "init_spike"
  /\ IF ~SPIKE
     THEN /\ s' = NoSpike
          /\ pc' = "init_sail"
          /\ UNCHANGED << statusvars, spike_dtb, rv_insns_per_tick, spike, calls >>
     ELSE \E sd \in D,
             o \in [dirty : BOOLEAN, misaligned : BOOLEAN, ram : {MB(r) : r \in RamMBs}],
             ipt \in 1..MaxIpt, dtb_err \in BOOLEAN, misa \in Val :
            LET mismatch == ConfigMismatch(o)
                fails == ~mismatch /\ sd # <<>> /\ dtb_err
            IN /\ mismatch => (ipt = 1 /\ sd = <<>> /\ misa = 0)
               /\ (mismatch \/ sd = <<>>) => ~dtb_err
               /\ fails => (ipt = 1 /\ misa = 0)
               /\ s' = [live |-> TRUE, dirty |-> o.dirty, misaligned |-> o.misaligned,
                        ram |-> o.ram, dtb_err |-> dtb_err]
               /\ calls' = [calls EXCEPT !.tv_init = @ + 1]
               /\ rv_insns_per_tick' = IF mismatch THEN rv_insns_per_tick ELSE ipt
               /\ spike_dtb' = IF mismatch \/ fails THEN <<>> ELSE sd
               /\ spike' = IF mismatch \/ fails THEN spike
                           ELSE [SpikeReset EXCEPT !.csr[CSR_MISA] = misa]
               /\ IF mismatch \/ fails THEN Exit(1)
                  ELSE pc' = "init_sail" /\ UNCHANGED statusvars
  /\ UNCHANGED << SPIKE, cfgvars, romvars, sail, loopvars, htifvars >>

InitSpike == InitSpikeOn(RunDtbSet)

\* uint32_t reset_vec[RST_VEC_SIZE], as the bytes the host holds
ResetVecBytes(e) ==
  WordBytesOf(663)
  \o WordBytesOf(165267 + (RST_VEC_SIZE * 4) * 1048576)
  \o WordBytes(61760, 9587)
  \o (IF SAIL_XLEN = 32 THEN WordBytes(386, 41603) ELSE WordBytes(386, 45699))
  \o WordBytesOf(163943)
  \o WordBytesOf(0)
  \o SubSeq(e, 1, 4)
  \o SubSeq(e, 5, 8)

\* a comparison of the lengths alone
DtbMatched_LenOnly(d, sd) == Len(d) = Len(sd)

\* bool matched = dtb_len == spike_dtb_len; then every byte is compared
DtbMatched(d, sd) ==
  /\ Len(d) = Len(sd)
  /\ \A i \in 1..Len(d) : d[i] = sd[i]

\* a rounding that always moves to the next page
RomEnd_NextPage(a) == ((a \div align) + 1) * align

\* uint64_t rom_end = (addr + align - 1) / align * align
RomEnd(a) == ((a + align - 1) \div align) * align

\* init_sail_reset_vector(entry): the memory written, the final write cursor,
\* and the exit status when the device trees differ (-1: no exit)
ResetVector(e, spk, d, sd) ==
  LET base == DEFAULT_RSTVEC
      vec == ResetVecBytes(e)
      m1 == WriteSeq(mem, base, [i \in 1..Len(vec) |-> CharOf(vec[i])])
      a1 == base + Len(vec)
      user == d # <<>> /\ Len(d) # 0
      m2 == IF user THEN WriteSeq(m1, a1, d) ELSE m1
      a2 == IF user THEN a1 + Len(d) ELSE a1
      abort == spk /\ user /\ ~DtbMatched(d, sd)
      fromSpike == spk /\ ~user /\ Len(sd) > 0
      m3 == IF fromSpike THEN WriteSeq(m2, a2, sd) ELSE m2
      a3 == IF fromSpike THEN a2 + Len(sd) ELSE a2
      rom_end == RomEnd(a3)
      m4 == WriteFill(m3, a3, rom_end - a3, 0)
  IN IF abort THEN [mem |-> m2, addr |-> a2, base |-> base, size |-> rv_rom_size,
                    pc |-> zPC, ec |-> 1]
     ELSE [mem |-> m4, addr |-> rom_end, base |-> base, size |-> rom_end - base,
           pc |-> base, ec |-> -1]

\* init_sail(elf_entry): model_init(), zinit_platform(), zinit_sys(), then the
\* reset vector
InitSail ==
  /\ pc = "init_sail"
  /\ LET r == ResetVector(entry, SPIKE, dtb, spike_dtb)
     IN /\ mem' = r.mem
        /\ addr' = r.addr
        /\ rv_rom_base' = r.base
        /\ rv_rom_size' = r.size
        /\ zPC' = r.pc
        /\ IF r.ec # -1 THEN Exit(r.ec)
           ELSE pc' = "init_check" /\ UNCHANGED statusvars
  /\ sail' = SailReset
  /\ zhtif_done' = FALSE
  /\ zhtif_exit_code' = 0
  /\ have_exception' = FALSE
  /\ calls' = [calls EXCEPT !.model_init = @ + 1]
  /\ UNCHANGED << SPIKE, cfgvars, spikevars, spike, loopvars >>

(* ----------------------------- comparator ----------------------------- *)
\* the oracle's checks: tv_check_priv, tv_check_pc, tv_check_gpr, tv_check_csr
tv_check_priv(sp, v) == sp.priv = v
tv_check_pc(sp, v) == sp.pc = v
tv_check_gpr(sp, i, v) == sp.x[i] = v
tv_check_csr(sp, c, v) == sp.csr[c] = v

\* a comparator that hands the raw enum value to the oracle
PrivMap_Identity(p) == p

\* uint8_t priv = (zcur_privilege == 2) ? 3 : zcur_privilege
PrivMap(p) == IF p = 2 THEN 3 ELSE p

\* a list in which the repeated line for x15 stands in place of the one for x16
GprChecks_Skip16 ==
  [i \in 1..15 |-> i] \o <<15>> \o [i \in 1..9 |-> 16 + i] \o <<25>>
  \o [i \in 1..6 |-> 25 + i]

\* the register numbers of the tv_check_gpr calls, in source order
GprChecks ==
  [i \in 1..15 |-> i] \o <<15>> \o [i \in 1..10 |-> 15 + i] \o <<25>>
  \o [i \in 1..6 |-> 25 + i]

\* the CSR numbers of the tv_check_csr calls, in source order
CsrChecks == << CSR_MCAUSE, CSR_MEPC, CSR_MTVAL, CSR_MSTATUS,
                CSR_SCAUSE, CSR_SEPC, CSR_STVAL >>

\* every check compare_states makes, in source order
CompareChecks ==
  << <<"priv", 0>>, <<"pc", 0>> >>
  \o [k \in 1..Len(GprChecks) |-> <<"gpr", GprChecks[k]>>]
  \o [k \in 1..Len(CsrChecks) |-> <<"csr", CsrChecks[k]>>]

\* the result of one "passed &= tv_check_...(...)" line
CheckPasses(chk, sl, pcv, sp) ==
  CASE chk[1] = "priv" -> tv_check_priv(sp, PrivMap(sl.cur_privilege))
    [] chk[1] = "pc" -> tv_check_pc(sp, pcv)
    [] chk[1] = "gpr" -> tv_check_gpr(sp, chk[2], sl.x[chk[2]])
    [] chk[1] = "csr" -> tv_check_csr(sp, chk[2], sl.csr[chk[2]])

\* a comparator whose checks are joined by && and stop at the first failure
KeepChecking_ShortCircuit(passed) == passed

\* "passed &= tv_check_...(...)": the call is made whatever passed holds
KeepChecking(passed) == TRUE

\* the checks one call of compare_states makes: how many (the first n of
\* CompareChecks) and which of them failed.  The k-th check is made when
\* KeepChecking allows it for the value passed has by then, which is 1 as
\* long as no earlier check has failed
CompareLog(sl, pcv, sp) ==
  LET differ == { k \in 1..Len(CompareChecks) :
                    ~CheckPasses(CompareChecks[k], sl, pcv, sp) }
      made == { k \in 1..Len(CompareChecks) :
                  KeepChecking(\A j \in differ : j >= k) }
  IN [n |-> Cardinality(made), failed |-> differ \cap made]

\* return passed: 1 unless a check that was made failed
Passed(log) == log.failed = {}

\* compare_states(s): passed starts at 1 and is and-ed with every check; the
\* body is compiled only when SPIKE is defined
compare_states(spk, sl, pcv, sp) ==
  IF spk THEN Passed(CompareLog(sl, pcv, sp)) ELSE TRUE

\* init_check(s): the MISA check when SPIKE is defined
init_check(spk, sl, sp) ==
  IF spk THEN tv_check_csr(sp, CSR_MISA, sl.csr[CSR_MISA]) ELSE TRUE

(* ------------------------------ finishing ----------------------------- *)
\* finish(ec): model_fini(), tv_free(s) when SPIKE is defined, exit(ec)
Finish(ec) ==
  /\ calls' = [calls EXCEPT !.model_fini = @ + 1,
                            !.tv_free = IF SPIKE THEN @ + 1 ELSE @]
  /\ Exit(ec)

\* finish(diverged): the bool becomes the int exit status
FinishCode(d) == IF d THEN 1 ELSE 0

\* if (!init_check(s)) finish(1); then run_sail() initialises its locals
InitCheck ==
  /\ pc = "init_check"
  /\ IF init_check(SPIKE, sail, spike)
     THEN /\ pc' = "run_sail"
          /\ UNCHANGED << statusvars, calls >>
     ELSE Finish(1)
  /\ step_no' = 0
  /\ insn_cnt' = 0
  /\ diverged' = FALSE
  /\ UNCHANGED << SPIKE, cfgvars, spikevars, romvars, archvars, stepped,
                  spike_done, htifvars >>

(* ------------------------- engine and oracle -------------------------- *)
\* the privilege encoding of the ISA, which the oracle uses: the engine's
\* enum value 2 (Machine) is the oracle's 3
OraclePriv(p) == IF p = 2 THEN 3 ELSE p

\* the oracle state that agrees with the engine state (sl, pcv)
Mirror(sl, pcv) == [priv |-> OraclePriv(sl.cur_privilege), pc |-> pcv, x |-> sl.x, csr |-> sl.csr]

\* an oracle state that differs from m in exactly the field f, or in none
Perturb(m, f) ==
  CASE f[1] = "none" -> m
    [] f[1] = "priv" -> [m EXCEPT !.priv = f[2]]
    [] f[1] = "pc" -> [m EXCEPT !.pc = @ + 4]
    [] f[1] = "gpr" -> [m EXCEPT !.x[f[2]] = (@ + 1) % (MaxVal + 1)]
    [] f[1] = "csr" -> [m EXCEPT !.csr[f[2]] = (@ + 1) % (MaxVal + 1)]

\* no difference
NoDiff == <<"none", 0>>

\* the differences between the oracle and the engine that a run explores
RunDiffs ==
  { NoDiff, <<"pc", 0>>, <<"gpr", 1>>, <<"csr", CSR_MEPC>> }
  \cup { <<"priv", q>> : q \in 0..3 }

\* a difference in each register the engine and the oracle hold
WideDiffs ==
  { NoDiff, <<"pc", 0>> }
  \cup { <<"priv", q>> : q \in 0..3 }
  \cup { <<"gpr", i>> : i \in 1..31 }
  \cup { <<"csr", c>> : c \in CsrIds }

\* the engine states zstep() can leave: one per privilege level
SailStates == { [SailReset EXCEPT !.cur_privilege = p] : p \in 0..2 }

(* ------------------------------ run_sail ------------------------------ *)
\* a loop that does not test the done flag
LoopCond_Forever(done) == TRUE

\* while (!zhtif_done)
LoopCond(done) == ~done

\* counters that are never advanced
Bump_Never(st, n) == n

\* counters that advance whether or not the step executed
Bump_Always(st, n) == n + 1

\* if (stepped) { step_no++; insn_cnt++; }
Bump(st, n) == IF st THEN n + 1 ELSE n

\* a check that forgets the "Spike done, but not Sail" branch
DoneMismatch_SailOnly(sail_done, sp_done) == sail_done /\ ~sp_done

\* the two "done, but not ..." tests after the Spike step
DoneMismatch(sail_done, sp_done) ==
  IF sail_done THEN ~sp_done ELSE sp_done

\* the loop condition is false: fall out of the loop to dump_state
LoopExit ==
  /\ pc = "run_sail"
  /\ ~LoopCond(zhtif_done)
  /\ pc' = "dump_state"
  /\ UNCHANGED << SPIKE, statusvars, cfgvars, spikevars, romvars, archvars,
                  loopvars, htifvars, calls >>

\* run a Sail step: stepped = zstep(step_no); on have_exception jump to
\* step_exception (which prints and goes to dump_state); else count the step
SailStep ==
  /\ pc = "run_sail"
  /\ LoopCond(zhtif_done)
  /\ calls.zstep < MaxIter
  /\ \E st \in BOOLEAN, exc \in BOOLEAN, done \in BOOLEAN, code \in Val,
        sl \in SailStates :
       /\ exc => (~done /\ sl = sail)
       /\ ~st => ~done
       /\ ~done => code = 0
       /\ stepped' = st
       /\ have_exception' = exc
       /\ zhtif_done' = done
       /\ zhtif_exit_code' = code
       /\ sail' = sl
       /\ zPC' = IF st /\ ~exc THEN zPC + 4 ELSE zPC
       /\ calls' = [calls EXCEPT
            !.zstep = @ + 1,
            !.step_args = Append(@, step_no),
            !.step_rets = Append(@, [st |-> st, exc |-> exc, done |-> done, code |-> code])]
       /\ IF exc
          THEN /\ pc' = "dump_state"
               /\ UNCHANGED << step_no, insn_cnt >>
          ELSE /\ pc' = IF SPIKE THEN "spike_step" ELSE "end_iter"
               /\ step_no' = Bump(st, step_no)
               /\ insn_cnt' = Bump(st, insn_cnt)
  /\ UNCHANGED << SPIKE, statusvars, cfgvars, spikevars, mem, addr, rv_rom_base,
                  rv_rom_size, spike, spike_done, diverged >>

\* run a Spike step: tv_step(s); spike_done = tv_is_done(s); then the two
\* "done, but not ..." checks, each of which calls exit(1)
SpikeStepOn(F, G) ==
  /\ pc = "spike_step"
  /\ \E f \in F, g \in G, sd \in BOOLEAN :
       /\ spike' = Perturb(Perturb(Mirror(sail, zPC), f), g)
       /\ spike_done' = sd
       /\ calls' = [calls EXCEPT !.tv_step = @ + 1]
       /\ IF DoneMismatch(zhtif_done, sd) THEN Exit(1)
          ELSE pc' = "compare" /\ UNCHANGED statusvars
  /\ UNCHANGED << SPIKE, cfgvars, spikevars, romvars, sail, step_no, insn_cnt,
                  stepped, diverged, htifvars >>

\* a loop whose comparison failure does not break out of it
AfterCompare_NoBreak(passed) == "end_iter"

SpikeStep == SpikeStepOn(RunDiffs, {NoDiff})

\* a loop whose passed comparison goes straight back to the loop test
AfterCompare_SkipRest(passed) == IF passed THEN "run_sail" ELSE "dump_state"

\* where "if (!compare_states(s)) { diverged = true; break; }" continues
AfterCompare(passed) == IF passed THEN "end_iter" ELSE "dump_state"

\* if (!compare_states(s)) { diverged = true; break; }
Compare ==
  /\ pc = "compare"
  /\ \E log \in { CompareLog(sail, zPC, spike) } :
       /\ calls' = [calls EXCEPT !.compare = @ + 1, !.checked = log]
       /\ pc' = AfterCompare(Passed(log))
       /\ diverged' = IF Passed(log) THEN diverged ELSE TRUE
  /\ UNCHANGED << SPIKE, statusvars, cfgvars, spikevars, romvars, archvars,
                  step_no, insn_cnt, stepped, spike_done, htifvars >>

\* a tick that waits for one instruction more
TickDue_Late(cnt, ipt) == cnt > ipt

\* if (insn_cnt == rv_insns_per_tick)
TickDue(cnt, ipt) == cnt = ipt

\* the end of an iteration: the SUCCESS / FAILURE line when the engine is
\* done, then the tick when insn_cnt has reached rv_insns_per_tick
EndIter ==
  /\ pc = "end_iter"
  /\ LET tick == TickDue(insn_cnt, rv_insns_per_tick)
     IN /\ insn_cnt' = IF tick THEN 0 ELSE insn_cnt
        /\ calls' = [calls EXCEPT
             !.report = IF zhtif_done
                        THEN (IF zhtif_exit_code = 0 THEN "SUCCESS" ELSE "FAILURE")
                        ELSE @,
             !.ztick = IF tick THEN @ + 1 ELSE @,
             !.tick_spike = IF tick /\ SPIKE THEN @ + 1 ELSE @]
  /\ pc' = "run_sail"
  /\ UNCHANGED << SPIKE, statusvars, cfgvars, spikevars, romvars, archvars,
                  step_no, stepped, spike_done, diverged, htifvars >>

\* dump_state: finish(diverged)
DumpState ==
  /\ pc = "dump_state"
  /\ Finish(FinishCode(diverged))
  /\ UNCHANGED << SPIKE, cfgvars, spikevars, romvars, archvars, loopvars, htifvars >>

Next ==
  \/ ProcessArgs
  \/ InitLogs
  \/ LoadSail
  \/ InitSpike
  \/ InitSail
  \/ InitCheck
  \/ LoopExit
  \/ SailStep
  \/ SpikeStep
  \/ Compare
  \/ EndIter
  \/ DumpState

Spec == Init /\ [][Next]_vars

\* the start-up alone, over the page-sized device trees
BootProcessArgs == ProcessArgsOn(DtbSet, BootArgvSet)
BootLoadSail == LoadSailOn(EntrySet)
BootInitSpike == InitSpikeOn(DtbSet)

NextBoot ==
  \/ BootProcessArgs
  \/ InitLogs
  \/ BootLoadSail
  \/ BootInitSpike
  \/ InitSail

SpecBoot == Init /\ [][NextBoot]_vars

\* the whole harness started without options, the oracle differing from the
\* engine in any one register, and in the last one compared as well
CmpProcessArgs == ProcessArgsOn({<<>>}, {<<>>})
CmpInitSpike == InitSpikeOn({<<>>})
CmpSpikeStep == SpikeStepOn(WideDiffs, {NoDiff, <<"csr", CSR_STVAL>>})

NextCmp ==
  \/ CmpProcessArgs
  \/ InitLogs
  \/ LoadSail
  \/ CmpInitSpike
  \/ InitSail
  \/ InitCheck
  \/ LoopExit
  \/ SailStep
  \/ CmpSpikeStep
  \/ Compare
  \/ EndIter
  \/ DumpState

SpecCmp == Init /\ [][NextCmp]_vars

TypeOK ==
  /\ pc \in {"process_args", "init_logs", "load_sail", "init_spike", "init_sail",
             "init_check", "run_sail", "spike_step", "compare", "end_iter",
             "dump_state", "exited"}
  /\ exit_status \in -1..1
  /\ exit_at \in {"none", "process_args", "init_logs", "load_sail", "init_spike",
                  "init_sail", "init_check", "spike_step", "dump_state"}
  /\ (pc = "exited") <=> (exit_status # -1)

(* ----------------------------- properties ----------------------------- *)
\* the process called exit() from the position at
ExitedAt(at) == pc = "exited" /\ exit_at = at

\* run_sail left its loop because the loop condition saw the engine done
\* (not through the divergence break nor the exception jump)
EndedByDone ==
  /\ ExitedAt("dump_state")
  /\ zhtif_done
  /\ ~diverged
  /\ ~have_exception

\* the last step number handed to zstep()
LastStepArg == calls.step_args[Len(calls.step_args)]

\* C1: when the run ends because the engine reports done, the process exit
\* status is 0 if and only if the program's exit code is 0.
C1_ExitStatusFollowsExitCode ==
  EndedByDone => ((exit_status = 0) <=> (zhtif_exit_code = 0))

\* C2: with an oracle attached, the iteration in which the comparator first
\* reports a mismatch is the last: the mismatch sets diverged and leaves the
\* loop, and from then on no engine step, oracle step, comparison or tick is
\* issued and the only step left is the exit, with a non-zero status.
C2_StopsAtFirstMismatch ==
  [][ /\ (pc = "compare" /\ ~compare_states(SPIKE, sail, zPC, spike))
         => (diverged' /\ pc' = "dump_state")
      /\ (pc = "compare" /\ compare_states(SPIKE, sail, zPC, spike)) => ~diverged'
      /\ diverged
         => /\ pc' = "exited"
            /\ exit_status' # 0
            /\ calls'.zstep = calls.zstep
            /\ calls'.tv_step = calls.tv_step
            /\ calls'.compare = calls.compare
            /\ calls'.ztick = calls.ztick
            /\ calls'.tick_spike = calls.tick_spike ]_vars

\* C2 witness: the run has exited on a mismatch found in a later iteration,
\* after an earlier comparison passed and a tick was issued
C2_Witness ==
  /\ ExitedAt("dump_state")
  /\ diverged
  /\ exit_status = 1
  /\ calls.compare >= 2
  /\ calls.ztick >= 1

\* the engine step and the oracle step of the same iteration have both run
BothStepped == SPIKE /\ calls.tv_step > 0 /\ calls.tv_step = calls.zstep

\* C3: with an oracle attached, once the engine step and the oracle step of
\* an iteration have run, the run has been aborted with a non-zero status at
\* that point, before this iteration's comparison, exactly when one of the
\* two reports done and the other does not.
C3_CompletionMismatchAborts ==
  BothStepped =>
    IF zhtif_done # spike_done
    THEN /\ ExitedAt("spike_step")
         /\ exit_status # 0
         /\ calls.compare = calls.tv_step - 1
    ELSE ~ExitedAt("spike_step")

\* C3 witness: the oracle reported done in an iteration in which the engine
\* did not, and the run was aborted there
C3_Witness ==
  /\ BothStepped
  /\ spike_done
  /\ ~zhtif_done
  /\ ExitedAt("spike_step")
  /\ calls.tv_step >= 2

\* C3 second case: both done, the run goes on to the comparison
C3_WitnessBothDone == BothStepped /\ spike_done /\ zhtif_done /\ pc = "compare"

\* C4: when the engine signals an exception during a step, the run is
\* aborted with a non-zero exit status; the step counters are not incremented
\* for that step, the oracle is not stepped, and no comparison or tick follows.
C4_ExceptionAbortsNonZero ==
  have_exception =>
    /\ pc \in {"dump_state", "exited"}
    /\ LastStepArg = step_no
    /\ SPIKE => (calls.tv_step = calls.zstep - 1 /\ calls.compare = calls.zstep - 1)
    /\ pc = "exited" => exit_status # 0

\* the part of C4 the code does keep: the exception stops the stepping
C4_ExceptionStopsStepping ==
  have_exception =>
    /\ pc \in {"dump_state", "exited"}
    /\ LastStepArg = step_no
    /\ SPIKE => (calls.tv_step = calls.zstep - 1 /\ calls.compare = calls.zstep - 1)
    /\ pc = "exited" => (exit_status = 0 /\ exit_at = "dump_state")

\* every engine step so far reported stepped = true
AllStepped ==
  /\ stepped
  /\ \A k \in 1..Len(calls.step_args) : calls.step_args[k] = k - 1

\* the order of the calls within an iteration, read from the call counts
StepOrder ==
  /\ pc = "spike_step"
     => (calls.zstep = calls.tv_step + 1 /\ calls.zstep = calls.compare + 1)
  /\ pc = "compare"
     => (calls.zstep = calls.tv_step /\ calls.zstep = calls.compare + 1)
  /\ (SPIKE /\ pc \in {"end_iter", "run_sail"})
     => (calls.zstep = calls.tv_step /\ calls.zstep = calls.compare)

\* C5, as claimed: at every invocation of the comparator the global step
\* counter equals the number of steps the oracle has taken.
C5_StepCounterEqualsOracleSteps ==
  /\ StepOrder
  /\ pc = "compare" => step_no = calls.tv_step

\* C5, amended: at every invocation of the comparator the number of engine
\* step invocations equals the number of oracle steps, the comparison is the
\* one of this iteration, and the global step counter is at most that number,
\* equal to it when every engine step so far executed.
C5_LockStepOrder ==
  /\ StepOrder
  /\ pc = "compare"
     => /\ step_no <= calls.tv_step
        /\ AllStepped => step_no = calls.tv_step
        /\ step_no = calls.tv_step => AllStepped

\* C5 witness: a comparison after an engine step that did not execute
C5_Witness ==
  /\ pc = "compare"
  /\ ~stepped
  /\ calls.tv_step = 2
  /\ step_no = 1

\* the run has left the loop of run_sail
LeftLoop == pc = "dump_state" \/ ExitedAt("dump_state")

\* C6, as claimed: with no oracle the loop is never left while the engine has
\* not reported done.
C6_LeavesLoopOnlyWhenDone ==
  (~SPIKE /\ LeftLoop) => zhtif_done

\* C6, amended: with no oracle the loop is left only when the engine has
\* reported done or has signalled an exception; once the engine reports done
\* no further engine step is issued, the iteration is finished and the next
\* loop test leaves the loop.
C6_LoopEndsWithDoneOrException ==
  /\ []((~SPIKE /\ LeftLoop) => (zhtif_done \/ have_exception))
  /\ [][ ~SPIKE =>
           /\ zhtif_done => calls'.zstep = calls.zstep
           /\ (zhtif_done /\ pc = "end_iter") => pc' = "run_sail"
           /\ (zhtif_done /\ pc = "run_sail") => pc' = "dump_state"
           /\ (~zhtif_done /\ ~have_exception' /\ pc = "run_sail")
              => pc' = "end_iter" ]_vars

\* C6 witness: without an oracle, the engine reported done in a later
\* iteration and the loop was left
C6_Witness ==
  /\ ~SPIKE
  /\ pc = "dump_state"
  /\ zhtif_done
  /\ ~have_exception
  /\ calls.zstep >= 2

\* C7: a difference between the oracle's and the harness' RAM size, dirty
\* flag or misaligned flag aborts the run in init_spike with a non-zero
\* status, before the boot image is built and before any step; when the three
\* agree, init_spike aborts only if the oracle fails to hand out its DTB.
C7_ConfigMismatchAborts ==
  s.live =>
    IF s.ram # rv_ram_size \/ s.dirty # rv_enable_dirty_update
       \/ s.misaligned # rv_enable_misaligned
    THEN /\ ExitedAt("init_spike")
         /\ exit_status # 0
         /\ mem = <<>>
         /\ calls.model_init = 0
         /\ calls.zstep = 0
         /\ calls.tv_step = 0
    ELSE ExitedAt("init_spike") => s.dtb_err

\* C7 witness: only the RAM size differs, and the run was aborted
C7_Witness ==
  /\ s.live
  /\ s.ram # rv_ram_size
  /\ s.dirty = rv_enable_dirty_update
  /\ s.misaligned = rv_enable_misaligned
  /\ ExitedAt("init_spike")

\* C7 second case: the configurations agree and the run reaches the loop
C7_WitnessAgree ==
  /\ s.live
  /\ s.ram = rv_ram_size
  /\ s.dirty = rv_enable_dirty_update
  /\ s.misaligned = rv_enable_misaligned
  /\ rv_enable_dirty_update
  /\ pc = "run_sail"

\* both a user-supplied and an oracle device tree exist
BothDtbs == SPIKE /\ Len(dtb) > 0 /\ Len(spike_dtb) > 0

\* C8: when a user-supplied and an oracle DTB both exist and differ in
\* length or in a byte, the run is aborted in the boot-image construction
\* with a non-zero status and no instruction of either engine has executed;
\* when they are identical the boot image construction does not abort.
C8_DtbMismatchAborts ==
  (BothDtbs /\ pc # "init_sail") =>
    IF dtb # spike_dtb
    THEN /\ ExitedAt("init_sail")
         /\ exit_status # 0
         /\ calls.zstep = 0
         /\ calls.tv_step = 0
    ELSE ~ExitedAt("init_sail")

\* C8 witness: two device trees of the same length that differ in one byte
C8_Witness ==
  /\ BothDtbs
  /\ Len(dtb) = Len(spike_dtb)
  /\ dtb # spike_dtb
  /\ ExitedAt("init_sail")

\* C8 second case: identical device trees, and the engine has stepped
C8_WitnessSame == BothDtbs /\ dtb = spike_dtb /\ calls.zstep > 0

\* the device tree a successful boot places in the ROM
BootDtb == IF Len(dtb) > 0 THEN dtb ELSE IF SPIKE THEN spike_dtb ELSE <<>>

\* the runs of memory written so far lie in [lo, hi) and do not overlap
WrittenOnceWithin(lo, hi) ==
  /\ \A k \in 1..Len(mem) : mem[k].at >= lo /\ mem[k].at + mem[k].len <= hi
  /\ \A j, k \in 1..Len(mem) :
       j < k => (mem[j].at + mem[j].len <= mem[k].at \/ mem[k].at + mem[k].len <= mem[j].at)

\* C9: after a successful boot with a DTB of length L, guest memory holds the
\* 32-byte reset vector at the ROM base, the L DTB bytes once at base + 32 and
\* zeros up to base + ROM size; ROM size is the smallest multiple of 0x1000
\* that is at least 32 + L, the write cursor is at base + ROM size and the PC
\* is the ROM base.
C9_BootImage ==
  pc = "init_check" =>
    LET L == Len(BootDtb)
        vec == ResetVecBytes(entry)
    IN /\ rv_rom_base = DEFAULT_RSTVEC
       /\ Len(vec) = 32
       /\ \A i \in 1..32 : Written(mem, rv_rom_base + i - 1)
                           /\ MemAt(mem, rv_rom_base + i - 1) = vec[i]
       /\ \A i \in 1..8 : MemAt(mem, rv_rom_base + 24 + i - 1) = entry[i]
       /\ \A i \in 1..L : MemAt(mem, rv_rom_base + 32 + i - 1) = BootDtb[i]
       /\ \A a \in (rv_rom_base + 32 + L)..(rv_rom_base + rv_rom_size - 1) :
            Written(mem, a) /\ MemAt(mem, a) = 0
       /\ WrittenOnceWithin(rv_rom_base, rv_rom_base + rv_rom_size)
       /\ rv_rom_size % align = 0
       /\ rv_rom_size >= 32 + L
       /\ rv_rom_size - align < 32 + L
       /\ addr = rv_rom_base + rv_rom_size
       /\ zPC = rv_rom_base

\* C9 witness: a user-supplied DTB, equal to the oracle's, that makes the
\* image one byte longer than a page
C9_Witness ==
  /\ pc = "init_check"
  /\ SPIKE
  /\ Len(dtb) = PageDtbLen + 1
  /\ rv_rom_size = 2 * align

\* C9 further cases: the DTB of the oracle alone filling the page exactly,
\* and no DTB at all
C9_WitnessExactPage ==
  pc = "init_check" /\ dtb = <<>> /\ Len(spike_dtb) = PageDtbLen /\ rv_rom_size = align
C9_WitnessNoDtb == pc = "init_check" /\ BootDtb = <<>> /\ rv_rom_size = align

\* this iteration's comparison has been made
Compared == SPIKE /\ calls.compare > 0 /\ calls.compare = calls.zstep

\* the oracle agrees with the engine on every compared field but the privilege
OthersAgree ==
  /\ spike.pc = zPC
  /\ \A i \in 1..31 : spike.x[i] = sail.x[i]
  /\ \A k \in 1..Len(CsrChecks) : spike.csr[CsrChecks[k]] = sail.csr[CsrChecks[k]]

\* C10: for two states that agree on every other compared field, the
\* comparison passes exactly when the oracle's privilege is the engine's
\* privilege with 2 mapped to 3 and every other value unchanged.
C10_PrivilegeSkew ==
  (Compared /\ OthersAgree) =>
    (diverged <=> spike.priv # (IF sail.cur_privilege = 2 THEN 3 ELSE sail.cur_privilege))

\* C10 witness: engine privilege 2 against oracle privilege 3 has passed
C10_Witness ==
  /\ Compared
  /\ OthersAgree
  /\ sail.cur_privilege = 2
  /\ spike.priv = 3
  /\ ~diverged
  /\ pc = "end_iter"

\* C10 further cases: engine 2 against oracle 2 fails, engine 1 against 1 passes
C10_WitnessRaw == Compared /\ OthersAgree /\ sail.cur_privilege = 2 /\ spike.priv = 2 /\ diverged
C10_WitnessSame == Compared /\ OthersAgree /\ sail.cur_privilege = 1 /\ spike.priv = 1 /\ ~diverged

\* the oracle has been attached: tv_init() has returned
Attached == SPIKE /\ s.live

\* C11: with an oracle attached, the process exits with status 0 only if the
\* engine and the oracle reported done in the same iteration and the program's
\* exit code is zero.
C11_ExitZeroOnlyOnCleanCompletion ==
  (Attached /\ pc = "exited" /\ exit_status = 0)
    => (zhtif_done /\ spike_done /\ zhtif_exit_code = 0)

\* the run_sail loop as compiled without SPIKE, run over the results rets of
\* successive zstep() calls: the step counter, the iterations started, the
\* line reported and, once the loop is left, the status of finish(diverged)
RECURSIVE RunWithout(_)
RunWithout(rets) ==
  IF rets = <<>>
  THEN [step_no |-> 0, iters |-> 0, report |-> "none", left |-> FALSE, status |-> -1]
  ELSE LET p == RunWithout(SubSeq(rets, 1, Len(rets) - 1))
           r == rets[Len(rets)]
       IN IF p.left THEN p
          ELSE IF r.exc
          THEN [p EXCEPT !.iters = @ + 1, !.left = TRUE, !.status = 0]
          ELSE [step_no |-> IF r.st THEN p.step_no + 1 ELSE p.step_no,
                iters |-> p.iters + 1,
                report |-> IF r.done
                           THEN (IF r.code = 0 THEN "SUCCESS" ELSE "FAILURE")
                           ELSE p.report,
                left |-> r.done,
                status |-> IF r.done THEN 0 ELSE -1]

\* C12: a run, with the oracle attached and every comparison passed and the
\* oracle done in the iteration the engine is done, or without the oracle, is
\* at every loop head and at its exit where the oracle-free loop is after the
\* same engine step results: same global step count, same number of
\* iterations, same reported line and same exit status.
C12_OracleChangesNoOutcome ==
  LET ref == RunWithout(calls.step_rets)
  IN /\ (pc = "run_sail" /\ ~diverged)
        => /\ step_no = ref.step_no
           /\ calls.zstep = ref.iters
           /\ calls.report = ref.report
           /\ zhtif_done = ref.left
     /\ (ExitedAt("dump_state") /\ ~diverged)
        => /\ step_no = ref.step_no
           /\ calls.zstep = ref.iters
           /\ calls.report = ref.report
           /\ ref.left
           /\ exit_status = ref.status

\* C12 witness: a run with the oracle attached has completed in its third
\* iteration, one step not having executed, with a non-zero program exit code
C12_Witness ==
  /\ Attached
  /\ EndedByDone
  /\ spike_done
  /\ calls.zstep = 3
  /\ step_no = 2
  /\ calls.compare = 3
  /\ calls.report = "FAILURE"

\* C12 second case: the same engine step results without the oracle
C12_WitnessWithout ==
  /\ ~SPIKE
  /\ EndedByDone
  /\ calls.zstep = 3
  /\ step_no = 2
  /\ calls.report = "FAILURE"

\* the engine and the oracle agree on the field the check chk is about
FieldAgrees(chk) ==
  CASE chk[1] = "priv"
         -> spike.priv = (IF sail.cur_privilege = 2 THEN 3 ELSE sail.cur_privilege)
    [] chk[1] = "pc" -> spike.pc = zPC
    [] chk[1] = "gpr" -> spike.x[chk[2]] = sail.x[chk[2]]
    [] chk[1] = "csr" -> spike.csr[chk[2]] = sail.csr[chk[2]]

\* C13: every invocation of the comparator makes every one of its checks,
\* whatever the earlier ones returned; it reports a failure exactly when one
\* of them failed, a check failing exactly when its field differs; and the
\* invocation leaves the engine's and the oracle's state as they were.
C13_EveryCheckIsMade ==
  /\ [](Compared =>
          /\ calls.checked.n = Len(CompareChecks)
          /\ \A k \in 1..Len(CompareChecks) :
               (k \in calls.checked.failed) <=> ~FieldAgrees(CompareChecks[k])
          /\ diverged <=> (calls.checked.failed # {}))
  /\ [][ pc = "compare" => (sail' = sail /\ spike' = spike /\ zPC' = zPC) ]_vars

\* C13 witness: the first check (privilege) and the last (stval) both failed
\* in one invocation, and every check between them was made
C13_Witness ==
  /\ Compared
  /\ calls.checked.n = Len(CompareChecks)
  /\ calls.checked.failed = {1, Len(CompareChecks)}
  /\ diverged

\* C13 second case: an invocation in which every check passed
C13_WitnessPassed ==
  /\ Compared
  /\ calls.checked = [n |-> Len(CompareChecks), failed |-> {}]
  /\ ~diverged
  /\ pc = "end_iter"

\* the supervisor status register of the RISC-V privileged architecture
\* (0x100), for which the harness defines no CSR_ constant
CSR_SSTATUS == 256

\* the checks the last invocation of the comparator made, in the order made
ChecksMade == SubSeq(CompareChecks, 1, calls.checked.n)

\* the fields the last invocation of the comparator checked
FieldsChecked == { CompareChecks[k] : k \in 1..calls.checked.n }

\* the position of a check in the order privilege, PC, x1..x31, CSRs
CheckRank(chk) ==
  CASE chk[1] = "priv" -> 0
    [] chk[1] = "pc" -> 1
    [] chk[1] = "gpr" -> 1 + chk[2]
    [] chk[1] = "csr" -> 33

\* the checks were made in the order privilege, PC, x1..x31, CSRs
InFieldOrder ==
  \A made \in {ChecksMade} :
    \A k \in 1..(Len(made) - 1) : CheckRank(made[k]) <= CheckRank(made[k + 1])

\* privilege, PC, x1..x31 and the CSRs csrs, as checks
FieldsWith(csrs) ==
  { <<"priv", 0>>, <<"pc", 0>> }
  \cup { <<"gpr", i>> : i \in 1..31 }
  \cup { <<"csr", c>> : c \in csrs }

\* the engine and the oracle differ in exactly one of the fields
OneDiffers(fields) == Cardinality({ fld \in fields : ~FieldAgrees(fld) }) = 1

\* the cause, exception-PC, trap-value and status CSRs of both levels
BothLevelsCsrs ==
  { CSR_MCAUSE, CSR_MEPC, CSR_MTVAL, CSR_MSTATUS,
    CSR_SCAUSE, CSR_SEPC, CSR_STVAL, CSR_SSTATUS }

\* the CSRs among them that are compared
SelectedCsrs == BothLevelsCsrs \ {CSR_SSTATUS}

\* C14, as claimed: every invocation of the comparator checks, in this
\* order, privilege, PC, each of x1..x31 and never x0, then the cause,
\* exception-PC, trap-value and status CSRs of the machine and the supervisor
\* level; a difference confined to one of these fields fails the comparison.
C14_ChecksStatusOfBothLevels ==
  Compared =>
    /\ InFieldOrder
    /\ FieldsChecked = FieldsWith(BothLevelsCsrs)
    /\ OneDiffers(FieldsWith(BothLevelsCsrs \cap CsrIds)) => diverged

\* C14, amended: every invocation of the comparator checks, in this order,
\* privilege, PC, each of x1..x31 and never x0, then mcause, mepc, mtval,
\* mstatus, scause, sepc and stval, and no supervisor status; a difference
\* confined to one of these fields fails the comparison.
C14_ChecksSelectedCsrs ==
  Compared =>
    /\ InFieldOrder
    /\ FieldsChecked = FieldsWith(SelectedCsrs)
    /\ SubSeq(ChecksMade, Len(ChecksMade) - 6, Len(ChecksMade))
         = << <<"csr", CSR_MCAUSE>>, <<"csr", CSR_MEPC>>, <<"csr", CSR_MTVAL>>,
              <<"csr", CSR_MSTATUS>>, <<"csr", CSR_SCAUSE>>, <<"csr", CSR_SEPC>>,
              <<"csr", CSR_STVAL>> >>
    /\ OneDiffers(FieldsWith(SelectedCsrs)) => diverged

\* C14 witness: the engines differ in x16 alone and the comparison failed
C14_Witness ==
  /\ Compared
  /\ ~FieldAgrees(<<"gpr", 16>>)
  /\ \A other \in FieldsWith(SelectedCsrs) \ {<<"gpr", 16>>} : FieldAgrees(other)
  /\ diverged
  /\ pc = "dump_state"

\* C14 further cases: a difference in stval alone, in mstatus alone
C14_WitnessStval ==
  /\ Compared
  /\ ~FieldAgrees(<<"csr", CSR_STVAL>>)
  /\ \A other \in FieldsWith(SelectedCsrs) \ {<<"csr", CSR_STVAL>>} : FieldAgrees(other)
  /\ diverged
C14_WitnessMstatus ==
  /\ Compared
  /\ ~FieldAgrees(<<"csr", CSR_MSTATUS>>)
  /\ \A other \in FieldsWith(SelectedCsrs) \ {<<"csr", CSR_MSTATUS>>} : FieldAgrees(other)
  /\ diverged

\* C15: with k instructions per tick, k >= 1: at every loop head the tick
\* counter is in 0..k-1, ticks * k + tick counter is the global step counter,
\* and the oracle has been ticked as often as the engine; ticks are issued
\* only at the end of an iteration, there exactly when the k-th executed
\* instruction since the last tick retired in this iteration, and the tick
\* sets the tick counter to 0 and ticks the engine and, when attached, the
\* oracle once each; an engine step that did not execute changes neither
\* counter and is followed by no tick.
C15_TickEveryKthInstruction ==
  /\ []((pc = "run_sail" /\ rv_insns_per_tick >= 1) =>
          /\ 0 <= insn_cnt
          /\ insn_cnt < rv_insns_per_tick
          /\ calls.ztick * rv_insns_per_tick + insn_cnt = step_no
          /\ calls.tick_spike = (IF SPIKE THEN calls.ztick ELSE 0))
  /\ [](pc = "end_iter" => (insn_cnt = rv_insns_per_tick => stepped))
  /\ [][ /\ pc = "end_iter" =>
              IF stepped /\ insn_cnt = rv_insns_per_tick
              THEN /\ insn_cnt' = 0
                   /\ calls'.ztick = calls.ztick + 1
                   /\ calls'.tick_spike = calls.tick_spike + (IF SPIKE THEN 1 ELSE 0)
              ELSE /\ insn_cnt' = insn_cnt
                   /\ calls'.ztick = calls.ztick
                   /\ calls'.tick_spike = calls.tick_spike
         /\ pc # "end_iter" =>
              (calls'.ztick = calls.ztick /\ calls'.tick_spike = calls.tick_spike)
         /\ (calls'.zstep = calls.zstep + 1 /\ ~stepped') =>
              (step_no' = step_no /\ insn_cnt' = insn_cnt)
         /\ step_no' = step_no + 1 =>
              (calls'.zstep = calls.zstep + 1 /\ stepped' /\ insn_cnt' = insn_cnt + 1) ]_vars

\* C15 witness: two instructions per tick, three iterations of which the
\* second did not execute; the one tick came with the second instruction
C15_Witness ==
  /\ pc = "run_sail"
  /\ SPIKE
  /\ rv_insns_per_tick = 2
  /\ calls.step_args = <<0, 1, 1>>
  /\ step_no = 2
  /\ insn_cnt = 0
  /\ calls.ztick = 1
  /\ calls.tick_spike = 1

\* C15 second case: an iteration whose step did not execute ends with no tick
C15_WitnessIdle ==
  /\ pc = "run_sail"
  /\ ~stepped
  /\ rv_insns_per_tick = 1
  /\ calls.zstep = 2
  /\ step_no = 1
  /\ calls.ztick = 1

\* C16: the comparator is invoked only with the oracle attached and in an
\* iteration in which neither the engine nor the oracle has reported done;
\* when both report done the run is never marked diverged.
C16_NoComparisonOnceDone ==
  /\ pc = "compare" => (SPIKE /\ ~zhtif_done /\ ~spike_done)
  /\ (SPIKE /\ zhtif_done /\ spike_done) => ~diverged

\* C17, as claimed: the step numbers handed to successive zstep() calls are
\* strictly increasing, no two calls receive the same number, and the global
\* step counter is never behind a number already handed out.
C17_StepNumbersNeverReplayed ==
  /\ \A j, k \in 1..Len(calls.step_args) :
       j < k => calls.step_args[j] < calls.step_args[k]
  /\ \A k \in 1..Len(calls.step_args) : calls.step_args[k] <= step_no

\* C17, amended: the step numbers handed to successive zstep() calls start
\* at 0 and never decrease: a call receives the number of the call before it
\* when that step did not execute, and that number plus one when it did, so
\* no number is handed out again once a step with it has executed; the
\* global step counter never decreases.
C17_StepNumbersAdvanceOnExecution ==
  /\ [](/\ Len(calls.step_args) = calls.zstep
        /\ Len(calls.step_rets) = calls.zstep
        /\ calls.zstep > 0 => calls.step_args[1] = 0
        /\ \A k \in 1..(calls.zstep - 1) :
             calls.step_args[k + 1]
               = calls.step_args[k] + (IF calls.step_rets[k].st THEN 1 ELSE 0)
        /\ \A j, k \in 1..calls.zstep :
             (j < k /\ calls.step_rets[j].st) => calls.step_args[j] < calls.step_args[k])
  /\ [][step_no' >= step_no]_vars

\* C17 witness: the number 0 was handed out twice, the first step with it not
\* having executed, and the number 1 after the second one executed
C17_Witness ==
  /\ calls.step_args = <<0, 0, 1>>
  /\ ~calls.step_rets[1].st
  /\ calls.step_rets[2].st
  /\ step_no = 2

\* C18: a process that exits after the engine has been initialised has by
\* then called the engine's model_fini() exactly once and, with the oracle
\* attached, the oracle's tv_free() exactly once.
C18_ResourcesReleasedOnce ==
  (pc = "exited" /\ calls.model_init > 0) =>
    /\ calls.model_fini = 1
    /\ calls.tv_free = (IF SPIKE THEN 1 ELSE 0)

\* C19: with the oracle attached, a non-empty user-supplied DTB and no DTB
\* from the oracle, the construction of the boot image does not abort and
\* the ROM holds the user's DTB after the reset vector.
C19_UserDtbAloneBoots ==
  (SPIKE /\ Len(dtb) > 0 /\ Len(spike_dtb) = 0 /\ calls.model_init > 0) =>
    /\ ~ExitedAt("init_sail")
    /\ \A i \in 1..Len(dtb) :
         /\ Written(mem, rv_rom_base + RST_VEC_SIZE * 4 + i - 1)
         /\ MemAt(mem, rv_rom_base + RST_VEC_SIZE * 4 + i - 1) = dtb[i]

\* C20: once the arguments are processed, each of the two flags is set
\* exactly when its own option was given: the mtval-has-illegal-inst-bits
\* flag by the option 'i', the dump-dts request by the option 's', so a
\* command line with 'i' and without 's' does not end in the device-tree dump.
C20_OptionSetsOnlyItsFlag ==
  pc # "process_args" =>
    /\ rv_mtval_has_illegal_inst_bits <=> ("i" \in calls.getopt)
    /\ do_dump_dts <=> ("s" \in calls.getopt)
====
